---- MODULE Spec2Model ----
(***************************************************************************)
(* The time loop of 2d_compressible_ALA.py: output, adaptive time step,    *)
(* Stokes solve, energy solve, diagnostics, log line, FullT update,        *)
(* steady-state test, then log close and checkpoint.                       *)
(*                                                                         *)
(* A finite-element field is represented by its value at one node, an      *)
(* integer.  The L2 norm of a field difference is the absolute difference. *)
(* Times are integers in units of delta_t / 2^MaxTimesteps, so that the    *)
(* growth factor 3/2 stays exact for as many steps as the loop can take.   *)
(***************************************************************************)
EXTENDS Integers, Sequences, FiniteSets, TLC

\* ------------------------------------------------------------------ bounds
MaxTimesteps == 3      \* largest configured `timesteps`
MaxTemp == 1           \* temperature values are 0..MaxTemp
MaxVelExp == 0         \* non-zero speeds are 2^0 .. 2^MaxVelExp
MaxFreq == 2           \* output_frequency is 1..MaxFreq

TempVals == 0 .. MaxTemp
VelVals == {0} \cup {2 ^ k : k \in 0 .. MaxVelExp}
TolVals == 0 .. MaxTemp
DtSeed == 2 ^ MaxTimesteps
MaxTimestepVals == {2 * DtSeed, 100000 * DtSeed}

NoValue == -1   \* a Python name not yet bound

Min(a, b) == IF a <= b THEN a ELSE b
Abs(a) == IF a >= 0 THEN a ELSE -a

\* ------------------------------------------------------------------- state
VARIABLES
    timesteps,               \* maximum number of timesteps (line 154)
    output_frequency,        \* line 193
    steady_state_tolerance,  \* line 156
    maximum_timestep,        \* TimestepAdaptor(maximum_timestep=...) (line 155)
    pc,                      \* position in the script
    run_state,               \* how the loop was left
    timestep,                \* loop variable, -1 before the first iteration
    time, dt, delta_t,       \* lines 152, 224, 153
    prev_delta_t,            \* delta_t before the last update_timestep
    z, T, T_old, FullT, Tbar,\* fields
    maxchange,               \* L2 change of T in the current step (line 240)
    plog, plog_closed,       \* params.log lines and whether it is closed
    output_file, ref_file,   \* VTK writes
    final_checkpoint,        \* writes of Final_State.h5
    stokes_calls, energy_calls

vars == <<timesteps, output_frequency, steady_state_tolerance, maximum_timestep,
          pc, run_state, timestep, time, dt, delta_t, prev_delta_t,
          z, T, T_old, FullT, Tbar, maxchange, plog, plog_closed,
          output_file, ref_file, final_checkpoint, stokes_calls, energy_calls>>

config == <<timesteps, output_frequency, steady_state_tolerance, maximum_timestep>>
fields == <<z, T, T_old, FullT>>
sinks == <<plog, plog_closed, output_file, ref_file, final_checkpoint>>
clock == <<time, dt, delta_t, prev_delta_t>>
calls == <<stokes_calls, energy_calls>>

HeaderLine == <<"timestep", "time", "dt", "maxchange", "u_rms", "avg_t", "energy_2">>

\* State after setup (lines 107-212): fields initialised, FullT = T + Tbar,
\* the header line logged, no solve called yet.  The node the fields are
\* sampled at has initial temperature 0 and a positive reference temperature.
Init ==
    /\ timesteps \in 0 .. MaxTimesteps
    /\ output_frequency \in 1 .. MaxFreq
    /\ steady_state_tolerance \in TolVals
    /\ maximum_timestep \in MaxTimestepVals
    /\ pc = "for"
    /\ run_state = "RUNNING"
    /\ timestep = -1
    /\ time = 0
    /\ dt = NoValue
    /\ delta_t = DtSeed
    /\ prev_delta_t = DtSeed
    /\ z = 0
    /\ T = 0
    /\ T_old = T
    /\ Tbar \in 1 .. MaxTemp
    /\ FullT = T + Tbar
    /\ maxchange = 0
    /\ plog = <<HeaderLine>>
    /\ plog_closed = FALSE
    /\ output_file = <<>>
    /\ ref_file = <<>>
    /\ final_checkpoint = <<>>
    /\ stokes_calls = 0
    /\ energy_calls = 0

\* ------------------------------------------------- collaborators' contracts
\* TimestepAdaptor.compute_timestep: the CFL bound is cell size over speed,
\* undefined for a zero velocity field; the result is capped by
\* maximum_timestep and by increase_tolerance times the previous delta_t.
GrowthNum == 3
GrowthDen == 2
CflRef == DtSeed * (2 ^ MaxVelExp)
CflDefined(u) == u # 0
CflBound(u) == CflRef \div u
GrowthCap(prev) == (GrowthNum * prev) \div GrowthDen

\* the adaptor without a fallback for an undefined CFL bound
compute_timestep_NoFallback(prev, u, cap) ==
    LET max_ts == Min(cap, GrowthCap(prev))
    IN  IF CflDefined(u) THEN Min(max_ts, CflBound(u)) ELSE 0

compute_timestep(prev, u, cap) ==
    LET max_ts == Min(cap, GrowthCap(prev))
    IN  IF CflDefined(u) THEN Min(max_ts, CflBound(u)) ELSE max_ts

\* gd.u_rms() and gd.T_avg() read the fields GeodynamicalDiagnostics was
\* constructed with: z and FullT (line 200).
gd_u_rms == Abs(z)
gd_T_avg == FullT

\* ----------------------------------------------------------------- actions
\* range(0, timesteps + 1)
RangeHasNext_Inclusive == timestep + 1 <= timesteps

\* range(0, timesteps) has a value after the current one
RangeHasNext == timestep + 1 < timesteps

\* for timestep in range(0, timesteps): next iteration
ForNext ==
    /\ pc = "for"
    /\ RangeHasNext
    /\ timestep' = timestep + 1
    /\ pc' = "output"
    /\ UNCHANGED <<config, run_state, clock, fields, Tbar, maxchange, sinks, calls>>

\* range exhausted: the loop ends without break
ForExhausted ==
    /\ pc = "for"
    /\ ~RangeHasNext
    /\ run_state' = "MAX_STEPS_REACHED"
    /\ pc' = "close"
    /\ UNCHANGED <<config, timestep, clock, fields, Tbar, maxchange, sinks, calls>>

\* the test made on the number of steps begun
OutputDue_Shifted == (timestep + 1) % output_frequency = 0

OutputDue == timestep % output_frequency = 0

\* output_file.write(*z.subfunctions, T, FullT); ref_file.write(...)
WriteOutput ==
    /\ pc = "output"
    /\ OutputDue
    /\ output_file' = Append(output_file, <<timestep, z, T, FullT>>)
    /\ ref_file' = Append(ref_file, <<timestep, Tbar>>)
    /\ pc' = "adapt"
    /\ UNCHANGED <<config, run_state, timestep, clock, fields, Tbar, maxchange,
                   plog, plog_closed, final_checkpoint, calls>>

SkipOutput ==
    /\ pc = "output"
    /\ ~OutputDue
    /\ pc' = "adapt"
    /\ UNCHANGED <<config, run_state, timestep, clock, fields, Tbar, maxchange, sinks, calls>>

\* the energy solve placed right after the time update, the Stokes solve left out
UpdateTimestep_ThenEnergy ==
    /\ pc = "adapt"
    /\ prev_delta_t' = delta_t
    /\ delta_t' = compute_timestep(delta_t, z, maximum_timestep)
    /\ dt' = delta_t'
    /\ time' = time + dt'
    /\ pc' = "energy"
    /\ UNCHANGED <<config, run_state, timestep, fields, Tbar, maxchange, sinks, calls>>

\* time = dt in place of time += dt
UpdateTimestep_Assign ==
    /\ pc = "adapt"
    /\ prev_delta_t' = delta_t
    /\ delta_t' = compute_timestep(delta_t, z, maximum_timestep)
    /\ dt' = delta_t'
    /\ time' = dt'
    /\ pc' = "stokes"
    /\ UNCHANGED <<config, run_state, timestep, fields, Tbar, maxchange, sinks, calls>>

\* dt = t_adapt.update_timestep(); time += dt
UpdateTimestep ==
    /\ pc = "adapt"
    /\ prev_delta_t' = delta_t
    /\ delta_t' = compute_timestep(delta_t, z, maximum_timestep)
    /\ dt' = delta_t'
    /\ time' = time + dt'
    /\ pc' = "stokes"
    /\ UNCHANGED <<config, run_state, timestep, fields, Tbar, maxchange, sinks, calls>>

\* stokes_solver.solve() returns: velocity and pressure replaced
StokesSolve ==
    /\ pc = "stokes"
    /\ stokes_calls' = stokes_calls + 1
    /\ \E u \in VelVals : z' = u
    /\ pc' = "energy"
    /\ UNCHANGED <<config, run_state, timestep, clock, T, T_old, FullT, Tbar,
                   maxchange, sinks, energy_calls>>

\* the time advance of the step undone when the solve raises
StokesSolveRaises_Rollback ==
    /\ pc = "stokes"
    /\ stokes_calls' = stokes_calls + 1
    /\ run_state' = "DIVERGED"
    /\ time' = time - dt
    /\ pc' = "raised"
    /\ UNCHANGED <<config, timestep, dt, delta_t, prev_delta_t, fields, Tbar,
                   maxchange, sinks, energy_calls>>

\* the raise caught by a handler that falls through to the code after the loop
StokesSolveRaises_Finally ==
    /\ pc = "stokes"
    /\ stokes_calls' = stokes_calls + 1
    /\ run_state' = "DIVERGED"
    /\ pc' = "close"
    /\ UNCHANGED <<config, timestep, clock, fields, Tbar, maxchange, sinks, energy_calls>>

\* stokes_solver.solve() raises: the exception leaves the script
StokesSolveRaises ==
    /\ pc = "stokes"
    /\ stokes_calls' = stokes_calls + 1
    /\ run_state' = "DIVERGED"
    /\ pc' = "raised"
    /\ UNCHANGED <<config, timestep, clock, fields, Tbar, maxchange, sinks, energy_calls>>

\* The energy solver retains the temperature it starts a step from.
SolutionOld == T

\* energy_solver.solve() returns: T_old keeps the temperature before the
\* step, T is the new temperature
EnergySolve ==
    /\ pc = "energy"
    /\ energy_calls' = energy_calls + 1
    /\ T_old' = SolutionOld
    /\ \E t \in TempVals : T' = t
    /\ pc' = "diag"
    /\ UNCHANGED <<config, run_state, timestep, clock, z, FullT, Tbar,
                   maxchange, sinks, stokes_calls>>

EnergySolveRaises ==
    /\ pc = "energy"
    /\ energy_calls' = energy_calls + 1
    /\ run_state' = "DIVERGED"
    /\ pc' = "raised"
    /\ UNCHANGED <<config, timestep, clock, fields, Tbar, maxchange, sinks, stokes_calls>>

\* the change measured on the full temperature
L2Change_FullT == Abs(FullT - T_old)

\* sqrt(assemble((T - energy_solver.T_old)**2 * dx))
L2Change == Abs(T - T_old)

\* lines 234-240: the diagnostics read the fields, maxchange is set
ComputeDiagnostics ==
    /\ pc = "diag"
    /\ maxchange' = L2Change
    /\ pc' = "log"
    /\ UNCHANGED <<config, run_state, timestep, clock, fields, Tbar, sinks, calls>>

\* approximation.work_against_gravity(u, T) and viscous_dissipation(u),
\* integrated: buoyancy times speed, and speed squared
rate_work_against_gravity == Abs(z) * T
rate_viscous_dissipation == z * z

\* energy_conservation_2 = abs(rate_work_against_gravity - rate_viscous_dissipation)
energy_conservation_2 == Abs(rate_work_against_gravity - rate_viscous_dissipation)

\* the dt column taken before the step's update
LogLine_StaleDt ==
    <<timestep, time, prev_delta_t, maxchange, gd_u_rms, gd_T_avg, energy_conservation_2>>

LogLine == <<timestep, time, delta_t, maxchange, gd_u_rms, gd_T_avg, energy_conservation_2>>

\* plog.log_str(f"{timestep} {time} {float(delta_t)} {maxchange} ...")
LogDiagnostics ==
    /\ pc = "log"
    /\ plog' = Append(plog, LogLine)
    /\ pc' = "assign"
    /\ UNCHANGED <<config, run_state, timestep, clock, fields, Tbar, maxchange,
                   plog_closed, output_file, ref_file, final_checkpoint, calls>>

\* T.assign(T+Tbar): the sum stored into the perturbation field
AssignFullT_IntoT ==
    /\ pc = "assign"
    /\ T' = T + Tbar
    /\ pc' = "test"
    /\ UNCHANGED <<config, run_state, timestep, clock, z, T_old, FullT, Tbar,
                   maxchange, sinks, calls>>

\* FullT.assign(T): the reference temperature left out
AssignFullT_NoTbar ==
    /\ pc = "assign"
    /\ FullT' = T
    /\ pc' = "test"
    /\ UNCHANGED <<config, run_state, timestep, clock, z, T, T_old, Tbar,
                   maxchange, sinks, calls>>

\* FullT.assign(T+Tbar)
AssignFullT ==
    /\ pc = "assign"
    /\ FullT' = T + Tbar
    /\ pc' = "test"
    /\ UNCHANGED <<config, run_state, timestep, clock, z, T, T_old, Tbar,
                   maxchange, sinks, calls>>

\* steady state also requires a zero energy-balance residual
SteadyState_EnergyBalance ==
    maxchange < steady_state_tolerance /\ energy_conservation_2 = 0

\* <= in place of <
SteadyState_Inclusive == maxchange <= steady_state_tolerance

SteadyState == maxchange < steady_state_tolerance

\* the step count tested before the convergence metric
SteadyStateBreak_MaxFirst ==
    /\ pc = "test"
    /\ SteadyState
    /\ run_state' = IF timestep + 1 = timesteps THEN "MAX_STEPS_REACHED" ELSE "CONVERGED"
    /\ pc' = "close"
    /\ UNCHANGED <<config, timestep, clock, fields, Tbar, maxchange, sinks, calls>>

\* if maxchange < steady_state_tolerance: break
SteadyStateBreak ==
    /\ pc = "test"
    /\ SteadyState
    /\ run_state' = "CONVERGED"
    /\ pc' = "close"
    /\ UNCHANGED <<config, timestep, clock, fields, Tbar, maxchange, sinks, calls>>

SteadyStateContinue ==
    /\ pc = "test"
    /\ ~SteadyState
    /\ pc' = "for"
    /\ UNCHANGED <<config, run_state, timestep, clock, fields, Tbar, maxchange, sinks, calls>>

\* plog.close()
CloseLog ==
    /\ pc = "close"
    /\ plog_closed' = TRUE
    /\ pc' = "checkpoint"
    /\ UNCHANGED <<config, run_state, timestep, clock, fields, Tbar, maxchange,
                   plog, output_file, ref_file, final_checkpoint, calls>>

\* the full temperature saved under the name "Temperature"
CheckpointContents_FullT == [mesh |-> "mesh", Temperature |-> FullT, Stokes |-> z]

CheckpointContents == [mesh |-> "mesh", Temperature |-> T, Stokes |-> z]

\* with CheckpointFile("Final_State.h5", "w") as final_checkpoint: save_*
SaveCheckpoint ==
    /\ pc = "checkpoint"
    /\ final_checkpoint' = Append(final_checkpoint, CheckpointContents)
    /\ pc' = "done"
    /\ UNCHANGED <<config, run_state, timestep, clock, fields, Tbar, maxchange,
                   plog, plog_closed, output_file, ref_file, calls>>

\* A sink write raises inside the loop: nothing catches it.
OutputWriteRaises ==
    /\ pc = "output"
    /\ OutputDue
    /\ run_state' = "SINK_ERROR"
    /\ pc' = "raised"
    /\ UNCHANGED <<config, timestep, clock, fields, Tbar, maxchange, sinks, calls>>

LogWriteRaises ==
    /\ pc = "log"
    /\ run_state' = "SINK_ERROR"
    /\ pc' = "raised"
    /\ UNCHANGED <<config, timestep, clock, fields, Tbar, maxchange, sinks, calls>>

Next ==
    \/ ForNext
    \/ ForExhausted
    \/ WriteOutput
    \/ SkipOutput
    \/ UpdateTimestep
    \/ StokesSolve
    \/ StokesSolveRaises
    \/ EnergySolve
    \/ EnergySolveRaises
    \/ ComputeDiagnostics
    \/ LogDiagnostics
    \/ AssignFullT
    \/ SteadyStateBreak
    \/ SteadyStateContinue
    \/ CloseLog
    \/ SaveCheckpoint

NextIO ==
    \/ Next
    \/ OutputWriteRaises
    \/ LogWriteRaises

\* Runs in which the sinks accept every write.
Spec == Init /\ [][Next]_vars

\* Every call returns or raises: the script never stalls between statements.
FairSpec == Spec /\ WF_vars(Next)

\* Runs in which a sink write may raise.
SpecIO == Init /\ [][NextIO]_vars

Terminated == pc \in {"done", "raised"}

InLoop == pc \in {"for", "output", "adapt", "stokes", "energy", "diag", "log", "assign", "test"}
DiagLines == Len(plog) - 1
LoggedStep(i) == plog[i + 1][1]
LoggedTime(i) == plog[i + 1][2]
LoggedChange(i) == plog[i + 1][4]

\* ------------------------------------------------------------------ claims

\* C1: at every observation point after a step's two solves have returned
\* (diagnostics, log append, convergence test, next output write,
\* termination) FullT equals T + Tbar for the T of that step's energy solve.
C1_FullTConsistentAfterSolves ==
    pc \in {"diag", "log", "test", "for", "output", "close", "checkpoint", "done"}
        => FullT = T + Tbar

\* C2: the run reaches a terminal state after at most `timesteps` steps, and
\* it leaves RUNNING only by the metric being below the tolerance
\* (CONVERGED), by the step count reaching the maximum (MAX_STEPS_REACHED)
\* or by a solve raising (DIVERGED).
C2_ExitPaths ==
    /\ run_state \in {"RUNNING", "CONVERGED", "MAX_STEPS_REACHED", "DIVERGED"}
    /\ (run_state = "RUNNING") <=> InLoop
    /\ stokes_calls <= timesteps
    /\ run_state = "CONVERGED" => maxchange < steady_state_tolerance
    /\ run_state = "MAX_STEPS_REACHED" => timestep + 1 = timesteps
    /\ run_state = "DIVERGED" => pc = "raised" /\ stokes_calls = timestep + 1

C3_DivergedAtStepK ==
    run_state = "DIVERGED" =>
        /\ pc = "raised"
        /\ DiagLines = timestep
        /\ stokes_calls = timestep + 1
        /\ energy_calls \in {timestep, timestep + 1}
        /\ final_checkpoint = <<>>

C3_Witness ==
    /\ run_state = "DIVERGED"
    /\ timestep = 2
    /\ DiagLines = 2
    /\ final_checkpoint = <<>>

\* C4: the log sink is closed on every terminal transition, DIVERGED included.
C4_LogClosedOnEveryTerminal == Terminated => plog_closed

C5_CheckpointState ==
    /\ Len(final_checkpoint) <= 1
    /\ run_state \in {"RUNNING", "DIVERGED"} => final_checkpoint = <<>>
    /\ pc = "done" =>
        /\ run_state \in {"CONVERGED", "MAX_STEPS_REACHED"}
        /\ plog_closed
        /\ final_checkpoint = <<[mesh |-> "mesh", Temperature |-> T, Stokes |-> z]>>

C6_MaxStepsAfterExactlyN ==
    /\ run_state = "MAX_STEPS_REACHED" =>
        /\ timestep + 1 = timesteps
        /\ stokes_calls = timesteps
        /\ energy_calls = timesteps
        /\ DiagLines = timesteps
    /\ (pc = "done" /\ \A i \in 1 .. DiagLines : LoggedChange(i) >= steady_state_tolerance)
        => run_state = "MAX_STEPS_REACHED"

C6_Witness ==
    /\ pc = "done"
    /\ run_state = "MAX_STEPS_REACHED"
    /\ steady_state_tolerance = 0
    /\ timesteps = MaxTimesteps
    /\ DiagLines = MaxTimesteps

\* C7: when the energy solve of a step leaves T unchanged and the tolerance
\* is positive, the metric of that step is 0 and the run stops at that step
\* in CONVERGED; unchanged in the first step, it stops after 1 step with one
\* log line.
C7_Metric ==
    /\ (pc \in {"log", "assign", "test"} /\ T = T_old) => maxchange = 0
    /\ run_state = "CONVERGED" =>
        /\ stokes_calls = timestep + 1
        /\ energy_calls = timestep + 1
        /\ DiagLines = timestep + 1

C7_UnchangedConverges ==
    /\ []C7_Metric
    /\ [][(pc = "test" /\ T = T_old /\ steady_state_tolerance > 0)
            => (run_state' = "CONVERGED" /\ pc' = "close" /\ timestep' = timestep)]_vars

C7_Witness ==
    /\ pc = "done"
    /\ run_state = "CONVERGED"
    /\ timesteps = MaxTimesteps
    /\ output_frequency = 2
    /\ steady_state_tolerance = 1
    /\ timestep = 0
    /\ DiagLines = 1
    /\ T = T_old

\* C8: a write failure of the visualization sink or of the log sink inside
\* the loop does not end the run.
C8_SinkFailureNotFatal == run_state # "SINK_ERROR"

\* C9: every value returned by update_timestep is positive and at most
\* min(maximum_timestep, 3/2 * previous delta_t), the first call included,
\* which is made before any Stokes solve, with a zero velocity.
C9_TimestepBounded ==
    /\ dt # NoValue =>
        /\ 0 < dt
        /\ dt <= maximum_timestep
        /\ GrowthDen * dt <= GrowthNum * prev_delta_t
    /\ (dt # NoValue /\ stokes_calls = 0) => z = 0
    /\ (dt = NoValue) <=> (timestep = -1 \/ (timestep = 0 /\ pc \in {"output", "adapt"}))

C9_Witness ==
    /\ pc = "stokes"
    /\ stokes_calls = 0
    /\ z = 0
    /\ dt > 0
    /\ dt = delta_t

\* C10: time strictly increases at every step, the step index goes up by
\* exactly 1 per iteration from 0, and the time logged for a step is greater
\* than the one logged for the step before.
C10_LoggedTimes ==
    /\ \A i \in 1 .. DiagLines : LoggedStep(i) = i - 1
    /\ \A i \in 1 .. DiagLines - 1 : LoggedTime(i) < LoggedTime(i + 1)

C10_TimeStrictlyIncreasing ==
    /\ []C10_LoggedTimes
    /\ [][timestep' # timestep => (timestep' = timestep + 1 /\ pc = "for")]_vars
    /\ [][pc = "adapt" => time' > time]_vars
    /\ [][pc # "adapt" => time' = time]_vars

C10_Witness ==
    /\ DiagLines = 3
    /\ LoggedTime(1) < LoggedTime(2)
    /\ LoggedTime(2) < LoggedTime(3)
    /\ delta_t < prev_delta_t

\* C11: in every iteration the operations run in the order output write (if
\* due), time-step update and time advance, Stokes solve, energy solve,
\* diagnostics and log line, convergence test; the energy solve starts only
\* after the step's Stokes solve has returned and each solve runs once per step.
C11_Progress ==
    /\ pc = "for" =>
        stokes_calls = timestep + 1 /\ energy_calls = timestep + 1 /\ DiagLines = timestep + 1
    /\ pc \in {"output", "adapt", "stokes"} =>
        stokes_calls = timestep /\ energy_calls = timestep /\ DiagLines = timestep
    /\ pc = "energy" =>
        stokes_calls = timestep + 1 /\ energy_calls = timestep /\ DiagLines = timestep
    /\ pc \in {"diag", "log"} =>
        stokes_calls = timestep + 1 /\ energy_calls = timestep + 1 /\ DiagLines = timestep
    /\ pc \in {"assign", "test"} =>
        stokes_calls = timestep + 1 /\ energy_calls = timestep + 1 /\ DiagLines = timestep + 1

C11_FixedOrder ==
    /\ []C11_Progress
    /\ [][output_file' # output_file => (time' = time /\ stokes_calls = timestep /\ pc' = "adapt")]_vars
    /\ [][time' # time => (stokes_calls' = timestep /\ energy_calls' = timestep /\ pc' = "stokes")]_vars
    /\ [][stokes_calls' # stokes_calls =>
            (stokes_calls' = timestep + 1 /\ energy_calls = timestep /\ dt > 0
             /\ pc' \in {"energy", "raised"})]_vars
    /\ [][energy_calls' # energy_calls =>
            (energy_calls' = timestep + 1 /\ stokes_calls = timestep + 1
             /\ pc = "energy" /\ pc' \in {"diag", "raised"})]_vars
    /\ [][plog' # plog =>
            (energy_calls = timestep + 1 /\ maxchange = Abs(T - T_old) /\ pc' = "assign")]_vars
    /\ [][(run_state' = "CONVERGED" /\ run_state = "RUNNING") => DiagLines = timestep + 1]_vars

C11_Witness ==
    /\ pc = "test"
    /\ timestep = 2
    /\ stokes_calls = 3
    /\ energy_calls = 3
    /\ DiagLines = 3
    /\ Len(output_file) = 3

StepsPastOutput == IF pc = "output" THEN timestep ELSE timestep + 1
CeilDiv(n, d) == (n + d - 1) \div d

\* C12: the fields go to output_file and the reference state to ref_file at
\* step i iff i mod output_frequency = 0, both together and before the step's
\* time-step update and solves; after n steps each sink holds
\* ceil(n / output_frequency) writes, the first of the initial state at step 0.
C12_Writes ==
    /\ Len(output_file) = CeilDiv(StepsPastOutput, output_frequency)
    /\ Len(ref_file) = Len(output_file)
    /\ \A j \in 1 .. Len(output_file) :
        /\ output_file[j][1] = (j - 1) * output_frequency
        /\ ref_file[j] = <<output_file[j][1], Tbar>>
    /\ Len(output_file) >= 1 => output_file[1] = <<0, 0, 0, Tbar>>

C12_OutputCadence ==
    /\ []C12_Writes
    /\ [][(output_file' # output_file \/ ref_file' # ref_file) =>
            /\ timestep % output_frequency = 0
            /\ output_file' = Append(output_file, <<timestep, z, T, FullT>>)
            /\ ref_file' = Append(ref_file, <<timestep, Tbar>>)
            /\ time' = time /\ delta_t' = delta_t
            /\ stokes_calls' = timestep /\ energy_calls' = timestep]_vars
    /\ [][(pc = "output" /\ timestep % output_frequency = 0) => output_file' # output_file]_vars

C12_Witness ==
    /\ pc = "done"
    /\ timestep = 2
    /\ output_frequency = 2
    /\ Len(output_file) = 2
    /\ output_file[2][1] = 2
    /\ output_file[2][3] # 0

LoggedResidual(i) == plog[i + 1][7]
LoggedSpeed(i) == plog[i + 1][5]
BelowTolerance == {i \in 1 .. DiagLines : LoggedChange(i) < steady_state_tolerance}

\* C13: the convergence test comes before the maximum-step test: a metric
\* below the tolerance in the last permitted step ends the run in CONVERGED,
\* and MAX_STEPS_REACHED is reached only when no executed step had a metric
\* below the tolerance.
C13_States ==
    /\ run_state = "MAX_STEPS_REACHED" => BelowTolerance = {}
    /\ (run_state = "CONVERGED" /\ timestep + 1 = timesteps) =>
        (DiagLines = timesteps /\ BelowTolerance = {timesteps})

C13_ConvergenceBeforeMaxSteps ==
    /\ []C13_States
    /\ [][(pc = "test" /\ maxchange < steady_state_tolerance /\ timestep + 1 = timesteps)
            => run_state' = "CONVERGED"]_vars

C13_Witness ==
    /\ pc = "done"
    /\ run_state = "CONVERGED"
    /\ timesteps = MaxTimesteps
    /\ timestep + 1 = timesteps
    /\ LoggedChange(timesteps) < steady_state_tolerance

\* C14: the step and the state the run stops in are a function of the
\* sequence of temperature-change values, the tolerance and the step count
\* alone: the run stops at the first step whose change is below the
\* tolerance, in CONVERGED, or after `timesteps` steps, in MAX_STEPS_REACHED,
\* whatever the energy-balance residual and the other diagnostics are.
C14_StopDecidedByChange ==
    pc \in {"close", "checkpoint", "done"} =>
        IF BelowTolerance = {}
        THEN run_state = "MAX_STEPS_REACHED" /\ DiagLines = timesteps
        ELSE run_state = "CONVERGED" /\ BelowTolerance = {DiagLines}

C14_TerminationByChangeOnly ==
    /\ []C14_StopDecidedByChange
    /\ [][(pc = "test" /\ maxchange < steady_state_tolerance) => run_state' = "CONVERGED"]_vars
    /\ [][(pc = "test" /\ ~(maxchange < steady_state_tolerance)) => pc' = "for"]_vars

C14_Witness ==
    /\ pc = "done"
    /\ run_state = "CONVERGED"
    /\ DiagLines = 1
    /\ LoggedChange(1) < steady_state_tolerance
    /\ LoggedResidual(1) # 0
    /\ LoggedSpeed(1) # 0

\* C15: the diagnostics, the log append, the output write and the
\* convergence test leave velocity, pressure and the temperature perturbation
\* unchanged: z changes only in the Stokes solve, T only in the energy solve,
\* and the reference state never changes.
C15_FieldsChangeOnlyInSolves ==
    /\ [][z' # z => (pc = "stokes" /\ stokes_calls' = stokes_calls + 1)]_vars
    /\ [][T' # T => (pc = "energy" /\ energy_calls' = energy_calls + 1)]_vars
    /\ [][(pc \in {"output", "diag", "log", "assign", "test"}) => UNCHANGED <<z, T>>]_vars
    /\ [][Tbar' = Tbar]_vars

C15_Witness ==
    /\ pc = "done"
    /\ DiagLines = 2
    /\ Len(output_file) = 2
    /\ z # 0
    /\ T # 0
    /\ final_checkpoint[1] = [mesh |-> "mesh", Temperature |-> T, Stokes |-> z]

\* C16: at the start of every iteration and at normal termination FullT
\* equals T + Tbar: it is assigned at setup and again at the end of every
\* completed step, before the convergence break, so every output write and
\* the state after the loop hold a consistent full temperature.
C16_FullTAtIterationStart ==
    /\ pc \in {"for", "output", "adapt", "stokes", "energy", "test", "close", "checkpoint", "done"}
        => FullT = T + Tbar
    /\ \A j \in 1 .. Len(output_file) : output_file[j][4] = output_file[j][3] + Tbar

C16_Witness ==
    /\ pc = "done"
    /\ run_state = "CONVERGED"
    /\ Len(output_file) = 2
    /\ output_file[2][3] # 0
    /\ FullT = T + Tbar
    /\ T # 0

LoggedDt(i) == plog[i + 1][3]
RECURSIVE SumDt(_)
SumDt(i) == IF i = 0 THEN 0 ELSE SumDt(i - 1) + LoggedDt(i)

\* the raise came from the energy solve: both solves of the step were called
EnergyRaised == run_state = "DIVERGED" /\ stokes_calls = energy_calls
StepsCompleted == IF EnergyRaised THEN energy_calls - 1 ELSE energy_calls

C17_ConvergedStepLogged ==
    run_state = "CONVERGED" =>
        /\ DiagLines = timestep + 1
        /\ LoggedStep(DiagLines) = timestep
        /\ LoggedChange(DiagLines) = maxchange
        /\ maxchange < steady_state_tolerance

C17_LoggedTimeIsSumOfDt ==
    \A i \in 1 .. DiagLines : LoggedTime(i) = SumDt(i) /\ LoggedDt(i) > 0

\* C17 as stated: in every reachable state the number of diagnostic log
\* lines equals the number of steps whose two solves both completed; the
\* step that reaches CONVERGED is logged; a logged time is the sum of the dt
\* values returned up to that step.
C17_LogLinesEqualCompletedSteps ==
    /\ DiagLines = StepsCompleted
    /\ C17_ConvergedStepLogged
    /\ C17_LoggedTimeIsSumOfDt

\* C17 amended: the number of diagnostic log lines equals the number of
\* steps whose two solves both completed, except between the return of a
\* step's energy solve and that step's log append, where it is one less;
\* the step that reaches CONVERGED is logged before its convergence test; a
\* logged time is the sum of the dt values returned up to that step.
C17_LogLinesFollowCompletedSteps ==
    /\ DiagLines = StepsCompleted - (IF pc \in {"diag", "log"} THEN 1 ELSE 0)
    /\ C17_ConvergedStepLogged
    /\ C17_LoggedTimeIsSumOfDt

C17_Witness ==
    /\ pc = "log"
    /\ timestep = 2
    /\ StepsCompleted = 3
    /\ DiagLines = 2
    /\ LoggedTime(2) = LoggedDt(1) + LoggedDt(2)
    /\ LoggedDt(2) # LoggedDt(1)

PriorTime == IF DiagLines = 0 THEN 0 ELSE LoggedTime(DiagLines)
PriorSpeed == IF DiagLines = 0 THEN 0 ELSE LoggedSpeed(DiagLines)

C18_TimeAheadOfLog ==
    /\ dt > 0
    /\ time = PriorTime + dt
    /\ DiagLines = timestep
    /\ FullT = T + Tbar
    /\ DiagLines >= 1 => LoggedChange(DiagLines) = Abs(T - T_old)

\* C18 as stated: when a solve raises in step k the time already includes
\* step k's dt, while the fields, FullT and the log reflect only the steps
\* before k.
C18_DivergedFieldsBeforeStepK ==
    run_state = "DIVERGED" => (C18_TimeAheadOfLog /\ Abs(z) = PriorSpeed)

C18_DivergedState ==
    run_state = "DIVERGED" =>
        /\ C18_TimeAheadOfLog
        /\ ~EnergyRaised => Abs(z) = PriorSpeed
        /\ EnergyRaised => stokes_calls = timestep + 1

\* C18 amended: when a solve raises in step k the time already includes step
\* k's dt and is never rolled back, while T, FullT and the log reflect only
\* the steps before k; z does too when the Stokes solve raised, and holds
\* step k's Stokes solution when the energy solve raised.
C18_TimeAdvancedBeforeDivergence ==
    /\ []C18_DivergedState
    /\ [][time' >= time]_vars
    /\ [][run_state' = "DIVERGED" => (time' = time /\ UNCHANGED <<fields, plog>>)]_vars

C18_Witness ==
    /\ run_state = "DIVERGED"
    /\ EnergyRaised
    /\ timestep = 1
    /\ DiagLines = 1
    /\ time = LoggedTime(1) + dt
    /\ Abs(z) # LoggedSpeed(1)

====
